---- MODULE Spec2Model ----
(***************************************************************************)
(* Trend Intelligence Dashboard: a model of the backend's submission       *)
(* pipeline and relational schema, the trend scoring formula, and the      *)
(* frontend's asynchronous state (Dashboard, InsightsSection, TrendCard,   *)
(* Feed).  Each part of the program has its own specification over the     *)
(* shared variables; the parts do not interact.                            *)
(***************************************************************************)
EXTENDS Integers, Sequences, FiniteSets, TLC

(* ------------------------------------------------------------------ *)
(* Bounds of the model                                                 *)
(* ------------------------------------------------------------------ *)
MaxHandlers == 2
MaxItemSerial == 3
MaxHistSerial == 3
MaxBonus == 10
MaxTrendReqs == 2
MaxRuns == 2
MaxStatusReqs == 2
MaxCards == 2
MaxFeedbackPosts == 2
MaxPages == 2
MaxFetchAlls == 2
MaxSourceSerial == 2
MaxSourceCalls == 2
MaxDataRows == 2
MaxParses == 2

VARIABLES
    \* backend configuration (app/config.py settings named in the README)
    useMockAI, claudeKeySet,
    \* PostgreSQL tables and their SERIAL sequences
    trend_items, trend_metrics_history, itemSeq, histSeq,
    \* number of history rows removed by the last DELETE on trend_items
    cascaded,
    \* POST /api/trends/submit requests being handled
    handlers,
    \* scoring: the factors, the stored trend_score (hundredths, as
    \* NUMERIC(8, 2)) and the width in percent of the rendered score bar
    scoreIn, scorePc, trend_score, barWidth,
    \* Dashboard: filter state, the useTrends hook's state, the displayed
    \* list and the /trends/daily requests in flight
    category, platform, demographic, sortBy,
    fetchedTrends, loading, error, displayTrends, trendReqs,
    \* the demographic the fetched trends were requested for and how the
    \* last settled request ended
    fetchedFor, lastOutcome,
    \* InsightsSection: component state, the backend's generation status,
    \* start requests pending, intervals created and still set, status
    \* requests in flight, fetchInsights calls awaited by poll callbacks
    generating, progress, insightsLoading, insightsData, mountFetch,
    backendStatus, startPending, started, runs, timers, statusReqs, fetchPending,
    \* fetchInsights calls made by each interval's callbacks
    fetchCount,
    \* TrendCard: each card's feedback state, the feedback POSTs in flight,
    \* the vote the server holds per trend, and the last handleFeedback
    \* call (card, feedback type posted, resulting feedback state)
    feedback, feedbackPosts, serverVotes, lastPost,
    \* Feed: component state, the fetchAll calls and the loadMore call in
    \* flight
    feedTab, feedStats, feedTrends, posts, totalPosts, feedLoading,
    loadingMore, feedError, feedPlatform, fetchAlls, loadMores,
    \* the number of posts the backend holds, and whether a Feed filter
    \* was changed since the page was opened
    backendTotal, filtersChanged,
    \* how the three requests of the last settled fetchAll ended
    lastFetch,
    \* useSources: the hook's state, the API calls in flight, what the last
    \* settled addSource/updateSource/removeSource gave its caller, and
    \* the server's sources with its id sequence
    sources, srcLoading, srcError, srcCalls, srcResult, serverSources, sourceSeq,
    \* ExcelImportModal: component state, the parseFile calls and the
    \* bulk import in flight, how the parseFile call started last ended,
    \* and the files the user can select
    xlFile, parsedRows, xlError, importing, xlResult, parses, importReqs,
    latestParse, availableFiles

importVars == <<xlFile, parsedRows, xlError, importing, xlResult, parses, importReqs,
                latestParse, availableFiles>>

sourcesVars == <<sources, srcLoading, srcError, srcCalls, srcResult, serverSources,
                 sourceSeq>>

feedVars == <<feedTab, feedStats, feedTrends, posts, totalPosts, feedLoading,
              loadingMore, feedError, feedPlatform, fetchAlls, loadMores,
              backendTotal, filtersChanged, lastFetch>>

cardVars == <<feedback, feedbackPosts, serverVotes, lastPost>>

insightsVars == <<generating, progress, insightsLoading, insightsData, mountFetch,
                  backendStatus, startPending, started, runs, timers, statusReqs,
                  fetchPending, fetchCount>>

dashVars == <<category, platform, demographic, sortBy, fetchedTrends, loading,
              error, displayTrends, trendReqs, fetchedFor, lastOutcome>>

scoreVars == <<scoreIn, scorePc, trend_score, barWidth>>

backendVars == <<useMockAI, claudeKeySet, trend_items, trend_metrics_history,
                 itemSeq, histSeq, cascaded, handlers>>

vars == <<backendVars, scoreVars, dashVars, insightsVars, cardVars, feedVars,
          sourcesVars, importVars>>

\* What the actions of one part of the program leave alone.
otherThanBackend ==
    <<scoreVars, dashVars, insightsVars, cardVars, feedVars, sourcesVars, importVars>>
otherThanScore ==
    <<backendVars, dashVars, insightsVars, cardVars, feedVars, sourcesVars, importVars>>
otherThanDash ==
    <<backendVars, scoreVars, insightsVars, cardVars, feedVars, sourcesVars, importVars>>
otherThanInsights ==
    <<backendVars, scoreVars, dashVars, cardVars, feedVars, sourcesVars, importVars>>
otherThanCard ==
    <<backendVars, scoreVars, dashVars, insightsVars, feedVars, sourcesVars, importVars>>
otherThanSources ==
    <<backendVars, scoreVars, dashVars, insightsVars, cardVars, feedVars, importVars>>
otherThanImport ==
    <<backendVars, scoreVars, dashVars, insightsVars, cardVars, feedVars, sourcesVars>>
otherThanFeed ==
    <<backendVars, scoreVars, dashVars, insightsVars, cardVars, sourcesVars, importVars>>

(* ------------------------------------------------------------------ *)
(* Backend: AI analysis (README "AI Analysis")                         *)
(* ------------------------------------------------------------------ *)
Urls == {"u1", "u2"}

NoAnalysis == [source |-> "none", category |-> "", colors |-> <<>>,
               patterns |-> <<>>, style_tags |-> <<>>, price_point |-> ""]

MockCategories == {"midi dress", "crop top"}

\* Mock mode: realistic mock fashion data with every field filled in.
MockAnalysis(cat) ==
    [source |-> "mock", category |-> cat, colors |-> <<"navy blue", "cream">>,
     patterns |-> <<"plaid">>, style_tags |-> <<"cottagecore", "y2k">>,
     price_point |-> "mid"]

\* Real mode: what the Claude API extracts from the URL.
ClaudeAnalysis ==
    [source |-> "claude", category |-> "cargo pants", colors |-> <<"olive green">>,
     patterns |-> <<"striped">>, style_tags |-> <<"quiet luxury">>,
     price_point |-> "luxury"]

\* Real mode is used when USE_MOCK_AI=False and CLAUDE_API_KEY is set.
RealMode == ~useMockAI /\ claudeKeySet

\* The analysis a submission ends up with; apiOk is the outcome of the
\* Claude API call (only made in real mode).  No fallback: an error.
AnalyzeNoFallback(apiOk, cat) ==
    IF RealMode
    THEN IF apiOk THEN ClaudeAnalysis ELSE NoAnalysis
    ELSE MockAnalysis(cat)

Analyze(apiOk, cat) ==
    IF RealMode
    THEN IF apiOk THEN ClaudeAnalysis ELSE MockAnalysis(cat)
    ELSE MockAnalysis(cat)

IsComplete(a) ==
    /\ a.category # ""
    /\ Len(a.colors) > 0
    /\ Len(a.patterns) > 0
    /\ Len(a.style_tags) > 0
    /\ a.price_point # ""

(* ------------------------------------------------------------------ *)
(* Backend: the tables of schema.sql                                   *)
(* ------------------------------------------------------------------ *)
UrlStored(u) == \E r \in trend_items : r.url = u

ItemIds == {r.id : r \in trend_items}

\* INSERT INTO trend_items without the UNIQUE constraint on url.
InsertTrendItemNoUnique(u, a) ==
    /\ itemSeq' = itemSeq + 1
    /\ trend_items' = trend_items \cup {[id |-> itemSeq + 1, url |-> u, analysis |-> a]}

\* INSERT INTO trend_items: id SERIAL PRIMARY KEY, url UNIQUE NOT NULL.
\* The sequence advances even when the constraint rejects the row.
InsertTrendItem(u, a) ==
    /\ itemSeq' = itemSeq + 1
    /\ trend_items' = IF UrlStored(u)
                      THEN trend_items
                      ELSE trend_items \cup {[id |-> itemSeq + 1, url |-> u, analysis |-> a]}

\* INSERT INTO trend_metrics_history without the REFERENCES check.
InsertMetricsNoForeignKey(tid) ==
    /\ histSeq' = histSeq + 1
    /\ trend_metrics_history' =
           trend_metrics_history \cup {[id |-> histSeq + 1, trend_item_id |-> tid]}

\* INSERT INTO trend_metrics_history:
\* trend_item_id INTEGER NOT NULL REFERENCES trend_items(id).
InsertMetrics(tid) ==
    /\ histSeq' = histSeq + 1
    /\ trend_metrics_history' =
           IF tid \in ItemIds
           THEN trend_metrics_history \cup {[id |-> histSeq + 1, trend_item_id |-> tid]}
           ELSE trend_metrics_history

\* DELETE FROM trend_items WHERE id = tid, leaving the referencing rows.
DeleteTrendItemNoCascade(tid) ==
    /\ trend_items' = {r \in trend_items : r.id # tid}
    /\ trend_metrics_history' = trend_metrics_history
    /\ cascaded' = Cardinality({m \in trend_metrics_history : m.trend_item_id = tid})

\* DELETE FROM trend_items WHERE id = tid, with ON DELETE CASCADE.
DeleteTrendItem(tid) ==
    /\ trend_items' = {r \in trend_items : r.id # tid}
    /\ trend_metrics_history' = {m \in trend_metrics_history : m.trend_item_id # tid}
    /\ cascaded' = Cardinality({m \in trend_metrics_history : m.trend_item_id = tid})

(* ------------------------------------------------------------------ *)
(* Backend: POST /api/trends/submit                                    *)
(* ------------------------------------------------------------------ *)
IdleHandler == [pc |-> "idle", url |-> "", analysis |-> NoAnalysis,
                claudeFailed |-> FALSE, sawExisting |-> FALSE,
                created |-> FALSE, uniqueViolation |-> FALSE, response |-> "none"]

\* The handler looks the URL up first: a stored URL is answered 400
\* "URL already submitted".
SubmitStart(h, u) ==
    /\ handlers[h].pc = "idle"
    /\ handlers' = [handlers EXCEPT ![h] =
           IF UrlStored(u)
           THEN [IdleHandler EXCEPT !.pc = "done", !.url = u,
                                    !.sawExisting = TRUE, !.response = "400"]
           ELSE [IdleHandler EXCEPT !.pc = "analyze", !.url = u]]
    /\ UNCHANGED <<useMockAI, claudeKeySet, trend_items, trend_metrics_history,
                   itemSeq, histSeq, cascaded, otherThanBackend>>

\* The AI analysis step; in real mode the Claude API call may fail.
SubmitAnalyze(h) ==
    /\ handlers[h].pc = "analyze"
    /\ \E apiOk \in BOOLEAN, cat \in MockCategories :
           /\ (~RealMode => apiOk)
           /\ handlers' = [handlers EXCEPT ![h].pc = "insert",
                                           ![h].claudeFailed = RealMode /\ ~apiOk,
                                           ![h].analysis = Analyze(apiOk, cat)]
    /\ UNCHANGED <<useMockAI, claudeKeySet, trend_items, trend_metrics_history,
                   itemSeq, histSeq, cascaded, otherThanBackend>>

\* The row is written.  A failed analysis is an error response; a row the
\* UNIQUE constraint rejects (a concurrent submission won) is an error too.
SubmitInsert(h) ==
    /\ handlers[h].pc = "insert"
    /\ itemSeq < MaxItemSerial
    /\ IF handlers[h].analysis.source = "none"
       THEN /\ handlers' = [handlers EXCEPT ![h].pc = "done", ![h].response = "500"]
            /\ UNCHANGED <<trend_items, itemSeq>>
       ELSE /\ InsertTrendItem(handlers[h].url, handlers[h].analysis)
            /\ \E code \in {"400", "500"} :
                   handlers' = [handlers EXCEPT
                       ![h].pc = "done",
                       ![h].created = (Cardinality(trend_items') > Cardinality(trend_items)),
                       ![h].uniqueViolation =
                           (Cardinality(trend_items') = Cardinality(trend_items)),
                       ![h].response =
                           IF Cardinality(trend_items') > Cardinality(trend_items)
                           THEN "200" ELSE code]
    /\ UNCHANGED <<useMockAI, claudeKeySet, trend_metrics_history, histSeq, cascaded,
                   otherThanBackend>>

\* The response has been sent; the worker takes the next request.
SubmitFinish(h) ==
    /\ handlers[h].pc = "done"
    /\ handlers' = [handlers EXCEPT ![h] = IdleHandler]
    /\ UNCHANGED <<useMockAI, claudeKeySet, trend_items, trend_metrics_history,
                   itemSeq, histSeq, cascaded, otherThanBackend>>

\* A metrics snapshot is recorded for some trend id.
RecordMetrics(tid) ==
    /\ histSeq < MaxHistSerial
    /\ InsertMetrics(tid)
    /\ UNCHANGED <<useMockAI, claudeKeySet, trend_items, itemSeq, cascaded, handlers,
                   otherThanBackend>>

\* A trend item is deleted.
RemoveTrend(tid) ==
    /\ tid \in ItemIds
    /\ DeleteTrendItem(tid)
    /\ UNCHANGED <<useMockAI, claudeKeySet, itemSeq, histSeq, handlers, otherThanBackend>>

BackendIdle ==
    /\ useMockAI = TRUE
    /\ claudeKeySet = FALSE
    /\ trend_items = {}
    /\ trend_metrics_history = {}
    /\ itemSeq = 0
    /\ histSeq = 0
    /\ cascaded = 0
    /\ handlers = [h \in 1..MaxHandlers |-> IdleHandler]

BackendInit ==
    /\ useMockAI \in BOOLEAN
    /\ claudeKeySet \in BOOLEAN
    /\ trend_items = {}
    /\ trend_metrics_history = {}
    /\ itemSeq = 0
    /\ histSeq = 0
    /\ cascaded = 0
    /\ handlers = [h \in 1..MaxHandlers |-> IdleHandler]

\* A row is written to trend_items directly (seed scripts, psql).
DbInsertItem(u) ==
    /\ itemSeq < MaxItemSerial
    /\ InsertTrendItem(u, MockAnalysis("midi dress"))
    /\ UNCHANGED <<useMockAI, claudeKeySet, trend_metrics_history, histSeq,
                   cascaded, handlers, otherThanBackend>>

SubmitNext ==
    \/ \E h \in 1..MaxHandlers, u \in Urls : SubmitStart(h, u)
    \/ \E h \in 1..MaxHandlers : SubmitAnalyze(h)
    \/ \E h \in 1..MaxHandlers : SubmitInsert(h)
    \/ \E h \in 1..MaxHandlers : SubmitFinish(h)
    \/ \E tid \in 1..MaxItemSerial : RemoveTrend(tid)

DbNext ==
    \/ \E u \in Urls : DbInsertItem(u)
    \/ \E tid \in 1..MaxItemSerial : RecordMetrics(tid)
    \/ \E tid \in 1..MaxItemSerial : RemoveTrend(tid)

(* ------------------------------------------------------------------ *)
(* Trend scoring (README "Trend Scoring Algorithm") and its rendering  *)
(* ------------------------------------------------------------------ *)
\* Engagement is 0..100; the velocity multiplier 1.0..3.0 and the recency
\* factor 1.0..1.5 are kept in tenths; scores are kept in hundredths.
EngagementMax == 100
VelocityMinTenths == 10
VelocityMaxTenths == 30
RecencyMinTenths == 10
RecencyMaxTenths == 15
ScoreCapHundredths == 10000

ScoreInputs ==
    [e : 0..EngagementMax, v : VelocityMinTenths..VelocityMaxTenths,
     r : RecencyMinTenths..RecencyMaxTenths, b : 0..MaxBonus]

\* engagement x velocity x recency, plus the cross-platform bonus points.
CombinedScore(e, v, r, b) == e * v * r + b * 100

FinalScoreNoCap(e, v, r, b) == CombinedScore(e, v, r, b)

\* Final Score: capped at 100, combines all factors.
FinalScore(e, v, r, b) ==
    IF CombinedScore(e, v, r, b) > ScoreCapHundredths
    THEN ScoreCapHundredths
    ELSE CombinedScore(e, v, r, b)

\* Math.round(trend.trend_score) of a non-negative score in hundredths.
RoundScore(s) == (s + 50) \div 100

\* TrendScoreBadge: style={{ width: `${score}%` }}
BadgeWidth(score) == score

ComputeScore ==
    /\ scorePc = "input"
    /\ trend_score' = FinalScore(scoreIn.e, scoreIn.v, scoreIn.r, scoreIn.b)
    /\ scorePc' = "stored"
    /\ UNCHANGED <<scoreIn, barWidth, otherThanScore>>

RenderBadge ==
    /\ scorePc = "stored"
    /\ barWidth' = BadgeWidth(RoundScore(trend_score))
    /\ scorePc' = "rendered"
    /\ UNCHANGED <<scoreIn, trend_score, otherThanScore>>

ScoreIdle ==
    /\ scoreIn = [e |-> 0, v |-> VelocityMinTenths, r |-> RecencyMinTenths, b |-> 0]
    /\ scorePc = "input"
    /\ trend_score = 0
    /\ barWidth = 0

ScoreInit ==
    /\ scoreIn \in ScoreInputs
    /\ scorePc = "input"
    /\ trend_score = 0
    /\ barWidth = 0

ScoreNext == ComputeScore \/ RenderBadge

(* ------------------------------------------------------------------ *)
(* Frontend: Dashboard, useTrends, getDailyTrends                      *)
(* ------------------------------------------------------------------ *)
Categories == {"", "Dresses"}
Platforms == {"", "social"}
Demographics == {"junior_girls", "young_women"}
SortKeys == {"score", "engagement", "recent"}

Item(id, cat, plat, score, eng, at) ==
    [id |-> id, category |-> cat, platform |-> plat, trend_score |-> score,
     engagement_count |-> eng, created_at |-> at]

\* The six mock trending items of the Dashboard.
mockTrends ==
    << Item("1", "Dresses", "Instagram", 92, 145000, 0),
       Item("2", "Tops", "TikTok", 87, 234000, 0),
       Item("3", "Accessories", "Instagram", 78, 98000, 0),
       Item("4", "Pants", "SHEIN", 85, 167000, 0),
       Item("5", "Outfits", "Fashion Nova", 81, 212000, 0),
       Item("6", "Footwear", "Instagram", 76, 123000, 0) >>

\* What the backend may answer: lists over two stored trends.
TrendA == Item("11", "Dresses", "social", 92, 100, 1)
TrendB == Item("12", "Dresses", "social", 87, 200, 2)
TrendLists == {<<>>, <<TrendA>>, <<TrendB>>, <<TrendA, TrendB>>, <<TrendB, TrendA>>}

SortValue(t, key) ==
    CASE key = "score" -> t.trend_score
      [] key = "engagement" -> t.engagement_count
      [] OTHER -> t.created_at

RECURSIVE InsertDesc(_, _, _)
\* t placed after every element that is not smaller (a stable sort step).
InsertDesc(t, sorted, key) ==
    IF sorted = <<>> THEN <<t>>
    ELSE IF SortValue(Head(sorted), key) >= SortValue(t, key)
         THEN <<Head(sorted)>> \o InsertDesc(t, Tail(sorted), key)
         ELSE <<t>> \o sorted

RECURSIVE SortDesc(_, _)
\* Array.prototype.sort with (a, b) => b.x - a.x: descending, stable.
SortDesc(list, key) ==
    IF list = <<>> THEN <<>>
    ELSE InsertDesc(list[Len(list)], SortDesc(SubSeq(list, 1, Len(list) - 1), key), key)

\* Dashboard effect on [fetchedTrends, sortBy]: the fetched list, sorted.
Displayed(fetched, key) ==
    IF key \in SortKeys THEN SortDesc(fetched, key) ELSE fetched

\* The earlier Dashboard's effect: mock items when nothing was fetched,
\* then the category and platform filters, then the sort.
DisplayedWithMock(fetched, cat, plat, key) ==
    LET final == IF Len(fetched) > 0 THEN fetched ELSE mockTrends
        byCat == SelectSeq(final, LAMBDA t : cat = "" \/ t.category = cat)
        byPlat == SelectSeq(byCat, LAMBDA t : plat = "" \/ t.platform = plat)
    IN  Displayed(byPlat, key)

\* The params object useTrends hands to getDailyTrends.
Params(cat, plat, demo, key) ==
    [category |-> cat, platform |-> plat, demographic |-> demo, sort_by |-> key]

\* useTrends' effect dependencies:
\* [params?.category, params?.platform, params?.sort_by, limit, offset].
TrendDeps(cat, plat, demo, key) == <<cat, plat, key>>

\* A render with new Dashboard state: useTrends' effect runs when one of
\* its dependencies changed, and then sends a request.
Rerender(cat, plat, demo, key) ==
    /\ category' = cat
    /\ platform' = plat
    /\ demographic' = demo
    /\ sortBy' = key
    /\ IF TrendDeps(cat, plat, demo, key) # TrendDeps(category, platform, demographic, sortBy)
       THEN /\ Len(trendReqs) < MaxTrendReqs
            /\ loading' = TRUE
            /\ error' = FALSE
            /\ trendReqs' = Append(trendReqs, Params(cat, plat, demo, key))
       ELSE UNCHANGED <<loading, error, trendReqs>>
    /\ displayTrends' = IF key # sortBy THEN Displayed(fetchedTrends, key)
                        ELSE displayTrends
    /\ UNCHANGED <<fetchedTrends, fetchedFor, lastOutcome, otherThanDash>>

SetCategory(cat) ==
    /\ cat # category
    /\ Rerender(cat, platform, demographic, sortBy)

SetPlatform(plat) ==
    /\ plat # platform
    /\ Rerender(category, plat, demographic, sortBy)

SetSortBy(key) ==
    /\ key # sortBy
    /\ Rerender(category, platform, demographic, key)

\* A demographic pill: selects it, or clears it when it is selected.
ClickDemographic(demo) ==
    /\ demo \in Demographics
    /\ Rerender(category, platform, IF demographic = demo THEN "" ELSE demo, sortBy)

ClickAllDemographics ==
    /\ demographic # ""
    /\ Rerender(category, platform, "", sortBy)

\* Reset Filters (and InsightsSection's onFilterByStyleTags).
ResetFilters ==
    /\ category # "" \/ platform # "" \/ sortBy # "score"
    /\ Rerender("", "", demographic, "score")

Without(reqs, i) == SubSeq(reqs, 1, i - 1) \o SubSeq(reqs, i + 1, Len(reqs))

\* A /trends/daily request succeeds: setTrends(data), setLoading(false),
\* and the Dashboard's effect on fetchedTrends runs.
TrendsArrive(i, data) ==
    /\ i \in 1..Len(trendReqs)
    /\ fetchedTrends' = data
    /\ fetchedFor' = trendReqs[i].demographic
    /\ loading' = FALSE
    /\ displayTrends' = Displayed(data, sortBy)
    /\ lastOutcome' = IF data = <<>> THEN "empty" ELSE "items"
    /\ trendReqs' = Without(trendReqs, i)
    /\ UNCHANGED <<category, platform, demographic, sortBy, error, otherThanDash>>

\* A /trends/daily request fails: setError(message), setLoading(false).
TrendsFail(i) ==
    /\ i \in 1..Len(trendReqs)
    /\ error' = TRUE
    /\ loading' = FALSE
    /\ lastOutcome' = "failed"
    /\ trendReqs' = Without(trendReqs, i)
    /\ UNCHANGED <<category, platform, demographic, sortBy, fetchedTrends,
                   fetchedFor, displayTrends, otherThanDash>>

\* After the first render: every state at its useState default and the
\* mount effect's request in flight.
DashInit ==
    /\ category = ""
    /\ platform = ""
    /\ demographic = ""
    /\ sortBy = "score"
    /\ fetchedTrends = <<>>
    /\ fetchedFor = "none"
    /\ loading = TRUE
    /\ error = FALSE
    /\ displayTrends = <<>>
    /\ lastOutcome = "none"
    /\ trendReqs = <<Params("", "", "", "score")>>

DashNext ==
    \/ \E cat \in Categories : SetCategory(cat)
    \/ \E plat \in Platforms : SetPlatform(plat)
    \/ \E key \in SortKeys : SetSortBy(key)
    \/ \E demo \in Demographics : ClickDemographic(demo)
    \/ ClickAllDemographics
    \/ ResetFilters
    \/ \E i \in 1..MaxTrendReqs, data \in TrendLists : TrendsArrive(i, data)
    \/ \E i \in 1..MaxTrendReqs : TrendsFail(i)

(* ------------------------------------------------------------------ *)
(* Frontend: InsightsSection and the insights API                      *)
(* ------------------------------------------------------------------ *)
\* InsightsStatus.status
TerminalStatuses == {"completed", "failed"}

\* The mount effect's fetchInsights settles: setData on success,
\* setLoading(false) either way.
MountFetchDone(ok) ==
    /\ mountFetch
    /\ mountFetch' = FALSE
    /\ insightsData' = IF ok THEN "data" ELSE insightsData
    /\ insightsLoading' = FALSE
    /\ UNCHANGED <<generating, progress, backendStatus, startPending, started, runs,
                   timers, statusReqs, fetchPending, fetchCount, otherThanInsights>>

\* handleGenerate up to its await; the button is disabled while generating
\* and not rendered while loading.
HandleGenerate ==
    /\ ~generating
    /\ ~insightsLoading
    /\ started < MaxRuns
    /\ started' = started + 1
    /\ generating' = TRUE
    /\ progress' = "Starting..."
    /\ startPending' = startPending + 1
    /\ UNCHANGED <<insightsLoading, insightsData, mountFetch, backendStatus, runs,
                   timers, statusReqs, fetchPending, fetchCount, otherThanInsights>>

\* startInsightsGeneration resolved: the backend is generating and
\* setInterval(..., 3000) is set.
StartSucceeds ==
    /\ startPending > 0
    /\ startPending' = startPending - 1
    /\ backendStatus' = "running"
    /\ runs' = runs + 1
    /\ timers' = timers \cup {runs + 1}
    /\ UNCHANGED <<generating, progress, insightsLoading, insightsData, mountFetch,
                   started, statusReqs, fetchPending, fetchCount, otherThanInsights>>

\* startInsightsGeneration threw: the outer catch.
StartFails ==
    /\ startPending > 0
    /\ startPending' = startPending - 1
    /\ generating' = FALSE
    /\ progress' = "null"
    /\ UNCHANGED <<insightsLoading, insightsData, mountFetch, backendStatus, started,
                   runs, timers, statusReqs, fetchPending, fetchCount, otherThanInsights>>

\* The backend's generation job ends.
BackendFinish(outcome) ==
    /\ backendStatus = "running"
    /\ outcome \in TerminalStatuses
    /\ backendStatus' = outcome
    /\ UNCHANGED <<generating, progress, insightsLoading, insightsData, mountFetch,
                   startPending, started, runs, timers, statusReqs, fetchPending,
                   fetchCount, otherThanInsights>>

\* An interval fires: its callback sends getInsightsStatus().
PollTick(p) ==
    /\ p \in timers
    /\ Len(statusReqs) < MaxStatusReqs
    /\ statusReqs' = Append(statusReqs, [poll |-> p, reply |-> "pending"])
    /\ UNCHANGED <<generating, progress, insightsLoading, insightsData, mountFetch,
                   backendStatus, startPending, started, runs, timers, fetchPending,
                   fetchCount, otherThanInsights>>

\* The backend answers a status request (or the request fails).
StatusServed(i, ok) ==
    /\ i \in 1..Len(statusReqs)
    /\ statusReqs[i].reply = "pending"
    /\ statusReqs' = [statusReqs EXCEPT ![i].reply =
                          IF ok THEN backendStatus ELSE "error"]
    /\ UNCHANGED <<generating, progress, insightsLoading, insightsData, mountFetch,
                   backendStatus, startPending, started, runs, timers, fetchPending,
                   fetchCount, otherThanInsights>>

\* fetchInsights calls a poll callback makes for one reply:
\* if (status.status === 'completed') await fetchInsights()
FetchesOnReply(p, reply) ==
    IF reply = "completed" THEN 1 ELSE 0

\* progress after the synchronous part of a poll callback.
ProgressOnReply(reply) ==
    CASE reply = "error" -> "null"
      [] reply = "failed" -> "null"
      [] OTHER -> reply

\* A status reply reaches its poll callback.
StatusArrives(i) ==
    /\ i \in 1..Len(statusReqs)
    /\ statusReqs[i].reply # "pending"
    /\ LET p == statusReqs[i].poll
           reply == statusReqs[i].reply
           stop == reply \in TerminalStatuses \cup {"error"}
       IN  /\ progress' = ProgressOnReply(reply)
           /\ timers' = IF stop THEN timers \ {p} ELSE timers
           /\ generating' = IF stop THEN FALSE ELSE generating
           /\ fetchCount' = [fetchCount EXCEPT ![p] = @ + FetchesOnReply(p, reply)]
           /\ fetchPending' = IF FetchesOnReply(p, reply) > 0
                              THEN Append(fetchPending, p) ELSE fetchPending
    /\ statusReqs' = Without(statusReqs, i)
    /\ UNCHANGED <<insightsLoading, insightsData, mountFetch, backendStatus,
                   startPending, started, runs, otherThanInsights>>

\* The fetchInsights a poll callback awaits settles, and the callback
\* goes on to setProgress(null).
PollFetchDone(j, ok) ==
    /\ j \in 1..Len(fetchPending)
    /\ insightsData' = IF ok THEN "data" ELSE insightsData
    /\ insightsLoading' = FALSE
    /\ progress' = "null"
    /\ fetchPending' = Without(fetchPending, j)
    /\ UNCHANGED <<generating, mountFetch, backendStatus, startPending, started, runs,
                   timers, statusReqs, fetchCount, otherThanInsights>>

InsightsInit ==
    /\ generating = FALSE
    /\ progress = "null"
    /\ insightsLoading = TRUE
    /\ insightsData = "none"
    /\ mountFetch = TRUE
    /\ backendStatus = "idle"
    /\ startPending = 0
    /\ started = 0
    /\ runs = 0
    /\ timers = {}
    /\ statusReqs = <<>>
    /\ fetchPending = <<>>
    /\ fetchCount = [p \in 1..MaxRuns |-> 0]

InsightsNext ==
    \/ \E ok \in BOOLEAN : MountFetchDone(ok)
    \/ HandleGenerate
    \/ StartSucceeds
    \/ StartFails
    \/ \E outcome \in TerminalStatuses : BackendFinish(outcome)
    \/ \E p \in 1..MaxRuns : PollTick(p)
    \/ \E i \in 1..MaxStatusReqs, ok \in BOOLEAN : StatusServed(i, ok)
    \/ \E i \in 1..MaxStatusReqs : StatusArrives(i)
    \/ \E j \in 1..MaxRuns * MaxStatusReqs, ok \in BOOLEAN : PollFetchDone(j, ok)

(* ------------------------------------------------------------------ *)
(* Frontend: TrendCard feedback                                        *)
(* ------------------------------------------------------------------ *)
\* const newType = feedback === type ? null : type
NewFeedback(current, type) == IF current = type THEN "null" ELSE type

\* newType === 'up' ? 'thumbs_up' : 'thumbs_down'
FeedbackType(newType) == IF newType = "up" THEN "thumbs_up" ELSE "thumbs_down"

\* handleFeedback up to its await: the local state is set and the
\* feedback is posted for the card's trend.
HandleFeedback(c, type) ==
    /\ Len(feedbackPosts) < MaxFeedbackPosts
    /\ LET newType == NewFeedback(feedback[c], type)
       IN  /\ feedback' = [feedback EXCEPT ![c] = newType]
           /\ feedbackPosts' = Append(feedbackPosts,
                  [trend |-> c, feedback_type |-> FeedbackType(newType)])
           /\ lastPost' = [card |-> c, feedback_type |-> FeedbackType(newType),
                           feedback |-> newType]
    /\ UNCHANGED <<serverVotes, otherThanCard>>

\* POST /recommendations/trends/{id}/feedback is recorded by the server.
FeedbackArrives(i) ==
    /\ i \in 1..Len(feedbackPosts)
    /\ serverVotes' = [serverVotes EXCEPT ![feedbackPosts[i].trend] =
                           feedbackPosts[i].feedback_type]
    /\ feedbackPosts' = Without(feedbackPosts, i)
    /\ UNCHANGED <<feedback, lastPost, otherThanCard>>

\* The POST fails: the catch block ignores it.
FeedbackFails(i) ==
    /\ i \in 1..Len(feedbackPosts)
    /\ feedbackPosts' = Without(feedbackPosts, i)
    /\ UNCHANGED <<feedback, serverVotes, lastPost, otherThanCard>>

CardInit ==
    /\ feedback = [c \in 1..MaxCards |-> "null"]
    /\ feedbackPosts = <<>>
    /\ serverVotes = [c \in 1..MaxCards |-> "none"]
    /\ lastPost = [card |-> 0, feedback_type |-> "none", feedback |-> "null"]

CardNext ==
    \/ \E c \in 1..MaxCards, type \in {"up", "down"} : HandleFeedback(c, type)
    \/ \E i \in 1..MaxFeedbackPosts : FeedbackArrives(i)
    \/ \E i \in 1..MaxFeedbackPosts : FeedbackFails(i)

(* ------------------------------------------------------------------ *)
(* Frontend: Feed and the feed API                                     *)
(* ------------------------------------------------------------------ *)
\* limit: 30 in fetchAll and loadMore
PageLimit == 30

FeedPlatforms == {"", "instagram"}

FeedTabs == {"insights", "feed"}

Min(a, b) == IF a < b THEN a ELSE b

\* The numbers of posts the backend may hold: around each page boundary.
Totals ==
    {0, 1} \cup {k * PageLimit + d : k \in 1..MaxPages, d \in {-1, 0, 1}}

\* GET /feed/posts: the posts matching the platform filter, in the
\* requested order.  Posts are numbered 1..backendTotal; the odd ones are
\* from instagram.
BackendPosts(plat) ==
    LET all == [i \in 1..backendTotal |-> i]
        IsInstagram(id) == id % 2 = 1
    IN  IF plat = "" THEN all ELSE SelectSeq(all, IsInstagram)

\* ... its page at the requested offset
Page(plat, offset, limit) ==
    SubSeq(BackendPosts(plat), offset + 1,
           Min(offset + limit, Len(BackendPosts(plat))))

\* ... and its total
Total(plat) == Len(BackendPosts(plat))

LoadMoreOffsetZero(ps) == 0

\* offset: posts.length
LoadMoreOffset(ps) == Len(ps)

\* fetchAll up to its await: setLoading(true), setError(null), and the
\* three requests are sent.
FetchAllIssue(plat) ==
    /\ Len(fetchAlls) < MaxFetchAlls
    /\ feedLoading' = TRUE
    /\ feedError' = "null"
    /\ fetchAlls' = Append(fetchAlls, [platform |-> plat])

\* A filter select changes: the effect on [platform, personType, sortBy,
\* days] calls fetchAll.
FeedSetPlatform(plat) ==
    /\ plat # feedPlatform
    /\ feedPlatform' = plat
    /\ filtersChanged' = TRUE
    /\ FetchAllIssue(plat)
    /\ UNCHANGED <<feedTab, feedStats, feedTrends, posts, totalPosts, loadingMore,
                   loadMores, backendTotal, lastFetch,
                   otherThanFeed>>

\* The Refresh button (disabled while loading) calls fetchAll.
FeedRefresh ==
    /\ ~feedLoading
    /\ FetchAllIssue(feedPlatform)
    /\ UNCHANGED <<feedTab, feedStats, feedTrends, posts, totalPosts, loadingMore,
                   feedPlatform, loadMores, backendTotal, filtersChanged,
                   lastFetch,
                   otherThanFeed>>

FeedSetTab(t) ==
    /\ t # feedTab
    /\ feedTab' = t
    /\ UNCHANGED <<feedStats, feedTrends, posts, totalPosts, feedLoading, loadingMore,
                   feedError, feedPlatform, fetchAlls, loadMores, backendTotal,
                   filtersChanged, lastFetch,
                   otherThanFeed>>

\* The earlier fetchAll awaits Promise.all of the three requests without
\* a .catch on each: one rejection rejects the whole, nothing is set, and
\* only the finally block runs.
FetchAllSettlesTogether(i, statsOk, trendsOk, postsOk) ==
    /\ i \in 1..Len(fetchAlls)
    /\ LET r == fetchAlls[i]
       IN  IF statsOk /\ trendsOk /\ postsOk
           THEN /\ feedStats' = "stats"
                /\ feedTrends' = "trends"
                /\ posts' = Page(r.platform, 0, PageLimit)
                /\ totalPosts' = Total(r.platform)
           ELSE UNCHANGED <<feedStats, feedTrends, posts, totalPosts>>
    /\ feedLoading' = FALSE
    /\ fetchAlls' = Without(fetchAlls, i)
    /\ lastFetch' = [stats |-> statsOk, trends |-> trendsOk, posts |-> postsOk]
    /\ UNCHANGED <<feedTab, loadingMore, feedError, feedPlatform, loadMores,
                   backendTotal, filtersChanged, otherThanFeed>>

\* A fetchAll's three requests have settled, each with its own outcome;
\* the .catch of each turns a failure into null (stats, trends) or into
\* an empty page with total 0 (posts).  Promise.all resolves and fetchAll
\* sets stats, trends, posts and totalPosts, then loading to false.
\* Nothing is set before the last of the three has settled.
FetchAllSettles(i, statsOk, trendsOk, postsOk) ==
    /\ i \in 1..Len(fetchAlls)
    /\ LET r == fetchAlls[i]
       IN  /\ feedStats' = (IF statsOk THEN "stats" ELSE "null")
           /\ feedTrends' = (IF trendsOk THEN "trends" ELSE "null")
           /\ posts' = (IF postsOk THEN Page(r.platform, 0, PageLimit) ELSE <<>>)
           /\ totalPosts' = (IF postsOk THEN Total(r.platform) ELSE 0)
    /\ feedLoading' = FALSE
    /\ fetchAlls' = Without(fetchAlls, i)
    /\ lastFetch' = [stats |-> statsOk, trends |-> trendsOk, posts |-> postsOk]
    /\ UNCHANGED <<feedTab, loadingMore, feedError, feedPlatform, loadMores,
                   backendTotal, filtersChanged, otherThanFeed>>

\* FeedView renders the button when the posts tab is shown, the list is
\* not empty and safePosts.length < (total || 0).
LoadMoreOffered ==
    /\ ~feedLoading
    /\ feedTab = "feed"
    /\ posts # <<>>
    /\ Len(posts) < totalPosts

\* loadMore up to its await: setLoadingMore(true) and the request for the
\* next page, which keeps the posts of the render it was called in.
LoadMoreClick ==
    /\ LoadMoreOffered
    /\ ~loadingMore
    /\ loadingMore' = TRUE
    /\ loadMores' = Append(loadMores, [platform |-> feedPlatform, base |-> posts,
                                       offset |-> LoadMoreOffset(posts),
                                       limit |-> PageLimit])
    /\ UNCHANGED <<feedTab, feedStats, feedTrends, posts, totalPosts, feedLoading,
                   feedError, feedPlatform, fetchAlls, backendTotal, filtersChanged,
                   lastFetch,
                   otherThanFeed>>

\* setPosts([...posts, ...(feedData?.posts || [])]), setLoadingMore(false)
LoadMoreArrives(i) ==
    /\ i \in 1..Len(loadMores)
    /\ LET req == loadMores[i]
       IN  posts' = req.base \o Page(req.platform, req.offset, req.limit)
    /\ loadingMore' = FALSE
    /\ loadMores' = Without(loadMores, i)
    /\ UNCHANGED <<feedTab, feedStats, feedTrends, totalPosts, feedLoading, feedError,
                   feedPlatform, fetchAlls, backendTotal, filtersChanged,
                   lastFetch,
                   otherThanFeed>>

\* The request fails: the catch block logs it, setLoadingMore(false).
LoadMoreFails(i) ==
    /\ i \in 1..Len(loadMores)
    /\ loadingMore' = FALSE
    /\ loadMores' = Without(loadMores, i)
    /\ UNCHANGED <<feedTab, feedStats, feedTrends, posts, totalPosts, feedLoading,
                   feedError, feedPlatform, fetchAlls, backendTotal, filtersChanged,
                   lastFetch,
                   otherThanFeed>>

\* The page as mounted: the effect has called fetchAll.
FeedMounted ==
    /\ feedTab = "insights"
    /\ feedStats = "null"
    /\ feedTrends = "null"
    /\ posts = <<>>
    /\ totalPosts = 0
    /\ feedLoading = TRUE
    /\ loadingMore = FALSE
    /\ feedError = "null"
    /\ feedPlatform = ""
    /\ fetchAlls = <<[platform |-> ""]>>
    /\ loadMores = <<>>
    /\ filtersChanged = FALSE
    /\ lastFetch = [stats |-> FALSE, trends |-> FALSE, posts |-> FALSE]

FeedIdle == FeedMounted /\ backendTotal = 0

FeedInit == FeedMounted /\ backendTotal \in Totals

FeedNext ==
    \/ \E plat \in FeedPlatforms : FeedSetPlatform(plat)
    \/ FeedRefresh
    \/ \E t \in FeedTabs : FeedSetTab(t)
    \/ \E i \in 1..MaxFetchAlls, statsOk \in BOOLEAN, trendsOk \in BOOLEAN,
          postsOk \in BOOLEAN : FetchAllSettles(i, statsOk, trendsOk, postsOk)
    \/ LoadMoreClick
    \/ \E i \in 1..Len(loadMores) : LoadMoreArrives(i)
    \/ \E i \in 1..Len(loadMores) : LoadMoreFails(i)

(* ------------------------------------------------------------------ *)
(* Frontend: useSources and the sources API                            *)
(* ------------------------------------------------------------------ *)
SourceIds == 1..MaxSourceSerial

\* A Source, as far as the hook is concerned: its id and the field that
\* toggleSource updates.
Source(id, active) == [id |-> id, active |-> active]

RECURSIVE MapReplace(_, _, _)
\* prev.map((s) => (s.id === id ? updated : s))
MapReplace(prev, id, updated) ==
    IF prev = <<>> THEN <<>>
    ELSE <<IF Head(prev).id = id THEN updated ELSE Head(prev)>>
         \o MapReplace(Tail(prev), id, updated)

FilterOutOthers(prev, id) == LET Same(x) == x.id = id IN SelectSeq(prev, Same)

\* prev.filter((s) => s.id !== id)
FilterOut(prev, id) == LET Other(x) == x.id # id IN SelectSeq(prev, Other)

\* A call of the hook up to its await: the request is sent.
SourceCall(call) ==
    /\ Len(srcCalls) < MaxSourceCalls
    /\ srcCalls' = Append(srcCalls, call)

\* fetchSources (refetch): setLoading(true), setError(null), getSources()
Refetch ==
    /\ SourceCall([op |-> "get", id |-> 0, active |-> FALSE])
    /\ srcLoading' = TRUE
    /\ srcError' = "null"
    /\ UNCHANGED <<sources, srcResult, serverSources, sourceSeq, otherThanSources>>

\* addSource(data): createSource(data)
AddSource ==
    /\ SourceCall([op |-> "create", id |-> 0, active |-> TRUE])
    /\ UNCHANGED <<sources, srcLoading, srcError, srcResult, serverSources, sourceSeq,
                   otherThanSources>>

\* toggleSource(source.id, !source.active) on a listed source:
\* updateSource(id, { active })
ToggleSource(k) ==
    /\ k \in 1..Len(sources)
    /\ SourceCall([op |-> "update", id |-> sources[k].id,
                   active |-> ~sources[k].active])
    /\ UNCHANGED <<sources, srcLoading, srcError, srcResult, serverSources, sourceSeq,
                   otherThanSources>>

\* removeSource(source.id) on a listed source: deleteSource(id)
RemoveSource(k) ==
    /\ k \in 1..Len(sources)
    /\ SourceCall([op |-> "delete", id |-> sources[k].id, active |-> FALSE])
    /\ UNCHANGED <<sources, srcLoading, srcError, srcResult, serverSources, sourceSeq,
                   otherThanSources>>

ServerHas(id) == \E k \in 1..Len(serverSources) : serverSources[k].id = id

\* The server does the operation and the awaited API call resolves: the
\* rest of the hook's function runs.
SourceCallSucceeds(i) ==
    /\ i \in 1..Len(srcCalls)
    /\ LET call == srcCalls[i]
       IN  CASE call.op = "get" ->
                /\ sources' = serverSources
                /\ srcLoading' = FALSE
                /\ UNCHANGED <<srcResult, serverSources, sourceSeq>>
             [] call.op = "create" ->
                /\ sourceSeq < MaxSourceSerial
                /\ LET newSource == Source(sourceSeq + 1, call.active)
                   IN  /\ serverSources' = Append(serverSources, newSource)
                       /\ sources' = <<newSource>> \o sources
                       /\ srcResult' = [op |-> "create", outcome |-> "returned",
                                        value |-> <<newSource>>]
                /\ sourceSeq' = sourceSeq + 1
                /\ UNCHANGED srcLoading
             [] call.op = "update" ->
                /\ ServerHas(call.id)
                /\ LET updated == Source(call.id, call.active)
                   IN  /\ serverSources' = MapReplace(serverSources, call.id, updated)
                       /\ sources' = MapReplace(sources, call.id, updated)
                       /\ srcResult' = [op |-> "update", outcome |-> "returned",
                                        value |-> <<updated>>]
                /\ UNCHANGED <<srcLoading, sourceSeq>>
             [] call.op = "delete" ->
                /\ ServerHas(call.id)
                /\ serverSources' = FilterOut(serverSources, call.id)
                /\ sources' = FilterOut(sources, call.id)
                /\ srcResult' = [op |-> "delete", outcome |-> "returned",
                                 value |-> <<>>]
                /\ UNCHANGED <<srcLoading, sourceSeq>>
    /\ srcCalls' = Without(srcCalls, i)
    /\ UNCHANGED <<srcError, otherThanSources>>

\* The awaited API call rejects: fetchSources catches it (setError,
\* setLoading(false)); addSource, updateSource and removeSource have no
\* catch, so their promise rejects before any setSources.
SourceCallFails(i) ==
    /\ i \in 1..Len(srcCalls)
    /\ LET call == srcCalls[i]
       IN  IF call.op = "get"
           THEN /\ srcError' = "Failed to fetch sources"
                /\ srcLoading' = FALSE
                /\ UNCHANGED srcResult
           ELSE /\ srcResult' = [op |-> call.op, outcome |-> "rejected",
                                 value |-> <<>>]
                /\ UNCHANGED <<srcError, srcLoading>>
    /\ srcCalls' = Without(srcCalls, i)
    /\ UNCHANGED <<sources, serverSources, sourceSeq, otherThanSources>>

\* The hook as mounted: the effect has called fetchSources.
SourcesInit ==
    /\ sources = <<>>
    /\ srcLoading = TRUE
    /\ srcError = "null"
    /\ srcCalls = <<[op |-> "get", id |-> 0, active |-> FALSE]>>
    /\ srcResult = [op |-> "none", outcome |-> "none", value |-> <<>>]
    /\ serverSources = <<>>
    /\ sourceSeq = 0

SourcesNext ==
    \/ Refetch
    \/ AddSource
    \/ \E k \in SourceIds : ToggleSource(k)
    \/ \E k \in SourceIds : RemoveSource(k)
    \/ \E i \in 1..MaxSourceCalls : SourceCallSucceeds(i)
    \/ \E i \in 1..MaxSourceCalls : SourceCallFails(i)

(* ------------------------------------------------------------------ *)
(* Frontend: ExcelImportModal                                          *)
(* ------------------------------------------------------------------ *)
\* Text is a sequence of characters.
HttpPrefix == <<"h", "t", "t", "p", ":", "/", "/">>

HttpsPrefix == <<"h", "t", "t", "p", "s", ":", "/", "/">>

\* A cell of sheet_to_json(sheet, { header: 1 }): absent, a number or text.
Absent == [kind |-> "undefined"]

Num(n) == [kind |-> "number", n |-> n]

Str(t) == [kind |-> "string", text |-> t]

\* String(cell || ''): an absent cell, the number 0 and the empty text
\* are falsy; the numbers used here have one digit.
StringOrEmpty(cell) ==
    CASE cell.kind = "undefined" -> <<>>
      [] cell.kind = "number" ->
             IF cell.n = 0 THEN <<>>
             ELSE <<CASE cell.n = 7 -> "7" [] OTHER -> "1">>
      [] cell.kind = "string" -> cell.text

RECURSIVE TrimStart(_)
TrimStart(t) == IF t # <<>> /\ Head(t) = " " THEN TrimStart(Tail(t)) ELSE t

RECURSIVE TrimEnd(_)
TrimEnd(t) ==
    IF t # <<>> /\ t[Len(t)] = " " THEN TrimEnd(SubSeq(t, 1, Len(t) - 1)) ELSE t

\* String.prototype.trim
Trim(t) == TrimEnd(TrimStart(t))

\* String.prototype.startsWith
StartsWith(t, prefix) ==
    Len(t) >= Len(prefix) /\ SubSeq(t, 1, Len(prefix)) = prefix

WithProtocolAsTyped(url) == url

\* if (!url.startsWith('http://') && !url.startsWith('https://'))
\*     url = 'https://' + url
WithProtocol(url) ==
    IF ~StartsWith(url, HttpPrefix) /\ ~StartsWith(url, HttpsPrefix)
    THEN HttpsPrefix \o url ELSE url

\* row[k] of a row array (0-based): undefined past its end
CellAt(row, k) == IF k + 1 <= Len(row.cells) THEN row.cells[k + 1] ELSE Absent

\* A row of rawData: a hole (undefined) or an array of cells.
Hole == [hole |-> TRUE, cells |-> <<>>]

Row(cells) == [hole |-> FALSE, cells |-> cells]

RECURSIVE ParseFrom(_, _, _)
\* The loop of parseFile from i on: acc.rows are the rows pushed and
\* acc.issues the number of issues pushed so far.
ParseFrom(rawData, i, acc) ==
    IF ~(i < Len(rawData)) THEN acc
    ELSE LET row == rawData[i + 1]
             name == Trim(StringOrEmpty(CellAt(row, 0)))
             url == Trim(StringOrEmpty(CellAt(row, 1)))
         IN  IF row.hole \/ Len(row.cells) = 0 THEN ParseFrom(rawData, i + 1, acc)
             ELSE IF name = <<>> /\ url = <<>> THEN ParseFrom(rawData, i + 1, acc)
             ELSE IF name = <<>> \/ url = <<>>
                  THEN ParseFrom(rawData, i + 1,
                                 [acc EXCEPT !.issues = acc.issues + 1])
             ELSE ParseFrom(rawData, i + 1,
                      [acc EXCEPT !.rows = Append(acc.rows,
                           [name |-> name, url |-> WithProtocol(url), index |-> i])])

NoError == [kind |-> "", skipped |-> 0]

\* What a parseFile call sets once its file has been read: error (left
\* alone when none is set), parsedRows, and whether it ended fatally.
ParseResult(f) ==
    IF ~f.readable
    THEN [fatal |-> TRUE, setsError |-> TRUE,
          error |-> [kind |-> "Could not read file", skipped |-> 0], rows |-> <<>>]
    ELSE IF Len(f.rawData) < 2
    THEN [fatal |-> TRUE, setsError |-> TRUE,
          error |-> [kind |-> "File must have a header row", skipped |-> 0],
          rows |-> <<>>]
    ELSE LET parsed == ParseFrom(f.rawData, 1, [rows |-> <<>>, issues |-> 0])
         IN  IF Len(parsed.rows) = 0
             THEN [fatal |-> TRUE, setsError |-> TRUE,
                   error |-> [kind |-> "No valid rows found", skipped |-> 0],
                   rows |-> <<>>]
             ELSE [fatal |-> FALSE, setsError |-> parsed.issues > 0,
                   error |-> [kind |-> "row(s) skipped", skipped |-> parsed.issues],
                   rows |-> parsed.rows]

\* The cells and rows that files are made of.
NameCells == {Absent, Num(0), Str(<<" ">>), Str(<<" ", "a", " ">>)}

UrlCells ==
    {Absent, Str(<<" ">>), Str(<<"a", ".", "b", " ">>),
     Str(HttpPrefix \o <<"a">>), Str(HttpsPrefix \o <<"a">>),
     Str(<<"h", "t", "t", "p", ":", "/", "a">>)}

DataRows ==
    {Hole, Row(<<>>), Row(<<Num(7)>>), Row(<<Absent>>)}
    \cup {Row(<<n, u>>) : n \in NameCells, u \in UrlCells}

\* The header row reads like a valid data row.
HeaderRow == Row(<<Str(<<"a">>), Str(HttpsPrefix \o <<"a">>)>>)

RECURSIVE RowLists(_)
RowLists(n) ==
    IF n = 0 THEN {<<>>}
    ELSE RowLists(n - 1)
         \cup {Append(l, r) : l \in {x \in RowLists(n - 1) : Len(x) = n - 1},
                              r \in DataRows}

File(readable, rawData) == [readable |-> readable, rawData |-> rawData]

\* An unreadable file, a sheet without rows, and a header row followed by
\* up to MaxDataRows rows.
AllFiles ==
    {File(FALSE, <<>>), File(TRUE, <<>>)}
    \cup {File(TRUE, <<HeaderRow>> \o l) : l \in RowLists(MaxDataRows)}

\* A file with one valid row, one with the header row only, and one
\* that cannot be read.
SampleFiles ==
    {File(TRUE, <<HeaderRow, Row(<<Str(<<" ", "a", " ">>), Str(<<"a", ".", "b", " ">>)>>)>>),
     File(TRUE, <<HeaderRow>>),
     File(FALSE, <<>>)}

\* file is null, or a selected file
NoFile == <<>>

\* parseFile up to its first await: setError(''), setFile(selectedFile).
\* The form with the drop zone is rendered while there is no result.
SelectFile(f) ==
    /\ f \in availableFiles
    /\ xlResult = "null"
    /\ Len(parses) < MaxParses
    /\ xlError' = NoError
    /\ xlFile' = <<f>>
    /\ parses' = Append(parses, f)
    /\ latestParse' = "pending"
    /\ UNCHANGED <<parsedRows, importing, xlResult, importReqs, availableFiles,
                   otherThanImport>>

\* A parseFile call gets past its awaits (the xlsx module loaded, the
\* file read or not) and runs to its end.
ParseEnds(i) ==
    /\ i \in 1..Len(parses)
    /\ LET r == ParseResult(parses[i])
       IN  /\ xlError' = (IF r.setsError THEN r.error ELSE xlError)
           /\ parsedRows' = r.rows
           /\ latestParse' = (IF i = Len(parses) /\ latestParse = "pending"
                              THEN (IF r.fatal THEN "fatal" ELSE "parsed")
                              ELSE latestParse)
    /\ parses' = Without(parses, i)
    /\ UNCHANGED <<xlFile, importing, xlResult, importReqs, availableFiles,
                   otherThanImport>>

\* The Import button: disabled={parsedRows.length === 0 || importing},
\* rendered while there is no result.
ImportEnabled == xlResult = "null" /\ parsedRows # <<>> /\ ~importing

\* handleImport up to its await: setImporting(true), setError(''), and
\* the parsed rows are sent to createSourcesBulk.
HandleImport ==
    /\ ImportEnabled
    /\ importing' = TRUE
    /\ xlError' = NoError
    /\ importReqs' = Append(importReqs, parsedRows)
    /\ UNCHANGED <<xlFile, parsedRows, xlResult, parses, latestParse, availableFiles,
                   otherThanImport>>

\* createSourcesBulk resolves: setResult(response), setImporting(false)
ImportSucceeds ==
    /\ importReqs # <<>>
    /\ xlResult' = "result"
    /\ importing' = FALSE
    /\ importReqs' = Tail(importReqs)
    /\ UNCHANGED <<xlFile, parsedRows, xlError, parses, latestParse, availableFiles,
                   otherThanImport>>

\* createSourcesBulk rejects: setError(...), setImporting(false)
ImportFails ==
    /\ importReqs # <<>>
    /\ xlError' = [kind |-> "Import failed", skipped |-> 0]
    /\ importing' = FALSE
    /\ importReqs' = Tail(importReqs)
    /\ UNCHANGED <<xlFile, parsedRows, xlResult, parses, latestParse, availableFiles,
                   otherThanImport>>

\* handleClose: the state is reset (importing is not).
HandleClose ==
    /\ xlFile # NoFile \/ parsedRows # <<>> \/ xlResult # "null" \/ xlError # NoError
    /\ xlFile' = NoFile
    /\ parsedRows' = <<>>
    /\ xlResult' = "null"
    /\ xlError' = NoError
    /\ UNCHANGED <<importing, parses, importReqs, latestParse, availableFiles,
                   otherThanImport>>

ModalOpened ==
    /\ xlFile = NoFile
    /\ parsedRows = <<>>
    /\ xlError = NoError
    /\ importing = FALSE
    /\ xlResult = "null"
    /\ parses = <<>>
    /\ importReqs = <<>>
    /\ latestParse = "none"

ImportIdle == ModalOpened /\ availableFiles = {}

ParseInit == ModalOpened /\ \E f \in AllFiles : availableFiles = {f}

ImportInit == ModalOpened /\ availableFiles = SampleFiles

ImportNext ==
    \/ \E f \in AllFiles : SelectFile(f)
    \/ \E i \in 1..MaxParses : ParseEnds(i)
    \/ HandleImport
    \/ ImportSucceeds
    \/ ImportFails
    \/ HandleClose

(* ------------------------------------------------------------------ *)
(* Specifications: one per part of the program                         *)
(* ------------------------------------------------------------------ *)
InitBackend ==
    BackendInit /\ ScoreIdle /\ DashInit /\ InsightsInit /\ CardInit /\ FeedIdle /\ SourcesInit
    /\ ImportIdle

InitScore ==
    ScoreInit /\ BackendIdle /\ DashInit /\ InsightsInit /\ CardInit /\ FeedIdle /\ SourcesInit
    /\ ImportIdle

InitDash ==
    DashInit /\ BackendIdle /\ ScoreIdle /\ InsightsInit /\ CardInit /\ FeedIdle /\ SourcesInit
    /\ ImportIdle

InitInsights ==
    InsightsInit /\ BackendIdle /\ ScoreIdle /\ DashInit /\ CardInit /\ FeedIdle /\ SourcesInit
    /\ ImportIdle

InitFeed ==
    FeedInit /\ BackendIdle /\ ScoreIdle /\ DashInit /\ InsightsInit /\ CardInit /\ SourcesInit
    /\ ImportIdle

InitSources ==
    SourcesInit /\ BackendIdle /\ ScoreIdle /\ DashInit /\ InsightsInit /\ CardInit /\ FeedIdle
    /\ ImportIdle

OthersIdle ==
    BackendIdle /\ ScoreIdle /\ DashInit /\ InsightsInit /\ CardInit /\ FeedIdle /\ SourcesInit

InitParse == ParseInit /\ OthersIdle

InitImport == ImportInit /\ OthersIdle

InitCard ==
    CardInit /\ BackendIdle /\ ScoreIdle /\ DashInit /\ InsightsInit /\ FeedIdle /\ SourcesInit
    /\ ImportIdle

SpecSubmit == InitBackend /\ [][SubmitNext]_vars

SpecDb == InitBackend /\ [][DbNext]_vars

SpecScore == InitScore /\ [][ScoreNext]_vars

SpecDash == InitDash /\ [][DashNext]_vars

SpecInsights == InitInsights /\ [][InsightsNext]_vars

SpecCard == InitCard /\ [][CardNext]_vars

SpecFeed == InitFeed /\ [][FeedNext]_vars

SpecSources == InitSources /\ [][SourcesNext]_vars

\* parseFile on every file of the bounded set, one file per behaviour
SpecParse == InitParse /\ [][ImportNext]_vars

\* the modal with a few files to select from
SpecImport == InitImport /\ [][ImportNext]_vars

(* ------------------------------------------------------------------ *)
(* Claims about the backend                                            *)
(* ------------------------------------------------------------------ *)

\* C1: in real mode, a submission whose Claude API call failed carries a
\* complete mock analysis (category, colors, patterns, style tags, price
\* point) and, once answered, was stored and answered 200 unless the
\* UNIQUE constraint rejected its row; it never ends in an analysis error.
C1_FallbackToMock ==
    \A h \in 1..MaxHandlers :
        handlers[h].claudeFailed =>
            /\ handlers[h].analysis.source = "mock"
            /\ IsComplete(handlers[h].analysis)
            /\ handlers[h].pc = "done" =>
                   \/ handlers[h].response = "200" /\ handlers[h].created
                   \/ handlers[h].uniqueViolation

C1_Witness ==
    \E h \in 1..MaxHandlers :
        /\ handlers[h].pc = "done"
        /\ handlers[h].claudeFailed
        /\ handlers[h].response = "200"
        /\ \E r \in trend_items :
               r.url = handlers[h].url /\ r.analysis.source = "mock"

\* C3: no two trend_items rows have the same URL; a submission that finds
\* its URL stored is answered 400 and adds no row; of two concurrent
\* submissions of one URL at most one creates a row.
C3_UrlUnique ==
    /\ \A r1, r2 \in trend_items : r1.url = r2.url => r1 = r2
    /\ \A h \in 1..MaxHandlers :
           handlers[h].sawExisting =>
               handlers[h].response = "400" /\ ~handlers[h].created
    /\ \A h \in 1..MaxHandlers :
           handlers[h].uniqueViolation => ~handlers[h].created

C3_Witness ==
    \E h1, h2 \in 1..MaxHandlers :
        /\ handlers[h1].pc = "done" /\ handlers[h1].created
        /\ handlers[h2].pc = "done" /\ handlers[h2].uniqueViolation
        /\ handlers[h1].url = handlers[h2].url
        /\ Cardinality({r \in trend_items : r.url = handlers[h1].url}) = 1

\* C4: every trend_metrics_history row references an existing trend_items
\* row, after any sequence of inserts and deletes; a delete of a trend
\* item leaves none of its history rows behind.
C4_ForeignKey ==
    \A m \in trend_metrics_history : m.trend_item_id \in ItemIds

C4_Witness ==
    /\ cascaded > 0
    /\ trend_metrics_history # {}
    /\ Cardinality(trend_items) < itemSeq

\* C2: the final score is capped at 100 for every engagement score in
\* 0..100, velocity multiplier in 1.0..3.0, recency factor in 1.0..1.5 and
\* cross-platform bonus, so the stored trend_score and the rendered score
\* bar width (percent) lie in 0..100.
C2_ScoreCapped ==
    /\ scorePc \in {"stored", "rendered"} =>
           trend_score >= 0 /\ trend_score <= ScoreCapHundredths
    /\ scorePc = "rendered" => barWidth >= 0 /\ barWidth <= 100

C2_Witness ==
    /\ scorePc = "rendered"
    /\ CombinedScore(scoreIn.e, scoreIn.v, scoreIn.r, scoreIn.b) > ScoreCapHundredths
    /\ trend_score = ScoreCapHundredths
    /\ barWidth = 100

(* ------------------------------------------------------------------ *)
(* Claims about the Dashboard                                          *)
(* ------------------------------------------------------------------ *)

\* C5: whenever the last trends request failed or returned no items (and
\* none is in flight), the Dashboard shows the six mock trending items,
\* filtered by the selected category and platform and sorted.
C5_MockFallback ==
    (trendReqs = <<>> /\ lastOutcome \in {"failed", "empty"}) =>
        displayTrends = DisplayedWithMock(<<>>, category, platform, sortBy)

\* C8: every change of the selected demographic makes useTrends send a new
\* /trends/daily request that carries the new demographic.
C8_DemographicRefetch ==
    [][demographic' # demographic =>
          /\ Len(trendReqs') = Len(trendReqs) + 1
          /\ trendReqs'[Len(trendReqs')].demographic = demographic']_vars

(* ------------------------------------------------------------------ *)
(* Claims about InsightsSection                                        *)
(* ------------------------------------------------------------------ *)
\* Polling was started and everything it set going has ended: no interval
\* is set, no start or status request is in flight and no poll callback
\* is waiting for fetchInsights.
InsightsQuiescent ==
    /\ runs > 0
    /\ timers = {}
    /\ startPending = 0
    /\ statusReqs = <<>>
    /\ fetchPending = <<>>

\* C6: once polling has ended (the interval cleared after a 'completed'
\* or 'failed' status or a failed status request, nothing left in flight),
\* generating is false and progress is null.
C6_PollingEnds ==
    InsightsQuiescent => ~generating /\ progress = "null"

\* C7: the poll callbacks of one generation run invoke fetchInsights at
\* most once, also when several status requests are in flight together.
C7_FetchOnce ==
    \A p \in 1..MaxRuns : fetchCount[p] <= 1

(* ------------------------------------------------------------------ *)
(* Claims about TrendCard                                              *)
(* ------------------------------------------------------------------ *)

\* C9: the feedback type handleFeedback posts agrees with the card's
\* resulting feedback state: 'thumbs_up' only when it becomes 'up',
\* 'thumbs_down' only when it becomes 'down'.
C9_FeedbackAgrees ==
    /\ lastPost.feedback_type = "thumbs_up" => lastPost.feedback = "up"
    /\ lastPost.feedback_type = "thumbs_down" => lastPost.feedback = "down"

(* ------------------------------------------------------------------ *)
(* Claims about the Feed                                               *)
(* ------------------------------------------------------------------ *)
IsPrefix(ps, all) == Len(ps) <= Len(all) /\ ps = SubSeq(all, 1, Len(ps))

\* While the filters are unchanged: the loaded posts are the first
\* posts.length matching posts in order (none twice, none skipped), a
\* Load More request in flight asks for limit 30 at the offset that is
\* the number of posts loaded when it was pressed, the button is offered
\* only while posts remain, and when the posts tab shows a list fetched
\* with the backend's total and offers no button, the list is every
\* matching post and posts.length equals total.
C10_Loaded ==
    ~filtersChanged =>
        LET all == BackendPosts(feedPlatform)
        IN  /\ IsPrefix(posts, all)
            /\ \A i \in 1..Len(loadMores) :
                   /\ loadMores[i].limit = 30
                   /\ loadMores[i].offset = Len(loadMores[i].base)
                   /\ IsPrefix(loadMores[i].base, all)
                   /\ Len(loadMores[i].base) < Len(all)
            /\ totalPosts \in {0, Len(all)}
            /\ LoadMoreOffered => Len(posts) < Len(all)
            /\ (/\ ~feedLoading
                /\ feedTab = "feed"
                /\ posts # <<>>
                /\ totalPosts = Len(all)
                /\ ~LoadMoreOffered) =>
                   posts = all /\ Len(posts) = totalPosts

\* While the filters are unchanged, a Load More that ends either failed
\* and left the list alone, or appended the next page to the posts it
\* was pressed on: min(30, remaining) further posts, at least one.
C10_Appended ==
    (~filtersChanged /\ loadMores # <<>> /\ loadMores' = <<>>) =>
        LET base == loadMores[1].base
            all == BackendPosts(feedPlatform)
        IN  \/ posts' = posts
            \/ /\ posts' = SubSeq(all, 1, Min(Len(all), Len(base) + 30))
               /\ Len(posts') > Len(base)

\* C10: with the filters unchanged and the backend's post list fixed, each
\* Load More requests limit 30 at offset = number of posts loaded and
\* appends that page in order, so every press that succeeds brings the
\* list at least one post nearer to the whole list; once the button is no
\* longer offered the list holds every matching post exactly once and
\* posts.length equals total.
C10_LoadMore == [](C10_Loaded) /\ [][C10_Appended]_vars

\* Load More was pressed until the list was complete: more than two
\* pages of posts are shown, all of them, and the button is gone.
C10_Witness ==
    /\ ~filtersChanged
    /\ Len(posts) > 2 * PageLimit
    /\ posts = BackendPosts(feedPlatform)
    /\ Len(posts) = totalPosts
    /\ feedTab = "feed"
    /\ ~feedLoading
    /\ loadMores = <<>>
    /\ ~LoadMoreOffered

\* C11: when a fetchAll settles, each of its three requests decides its
\* own part only: stats and trends are null exactly when their request
\* failed, posts and totalPosts are the first page and the total when the
\* posts request succeeded (whatever the other two did) and the empty
\* page and 0 when it failed; loading is false and error is null.
C11_Settled ==
    (Len(fetchAlls') < Len(fetchAlls)) =>
        /\ feedStats' = (IF lastFetch'.stats THEN "stats" ELSE "null")
        /\ feedTrends' = (IF lastFetch'.trends THEN "trends" ELSE "null")
        /\ \E i \in 1..Len(fetchAlls) :
               /\ fetchAlls' = Without(fetchAlls, i)
               /\ posts' = (IF lastFetch'.posts
                            THEN Page(fetchAlls[i].platform, 0, 30) ELSE <<>>)
               /\ totalPosts' = (IF lastFetch'.posts
                                 THEN Total(fetchAlls[i].platform) ELSE 0)
        /\ feedLoading' = FALSE
        /\ feedError' = "null"

C11_IndependentFailures == [](feedError = "null") /\ [][C11_Settled]_vars

\* The stats and trend-analysis requests failed and the posts request
\* succeeded: the posts are shown, stats and trends are null.
C11_Witness ==
    /\ lastFetch = [stats |-> FALSE, trends |-> FALSE, posts |-> TRUE]
    /\ fetchAlls = <<>>
    /\ posts # <<>>
    /\ totalPosts = Len(BackendPosts(feedPlatform))
    /\ feedStats = "null"
    /\ feedTrends = "null"
    /\ ~feedLoading
    /\ feedError = "null"

(* ------------------------------------------------------------------ *)
(* Claims about useSources                                             *)
(* ------------------------------------------------------------------ *)
\* What the step that ends the i-th call in flight must have done.
C12_Ended(i) ==
    LET call == srcCalls[i]
        ok == srcResult'.outcome = "returned"
    IN  /\ srcCalls' = Without(srcCalls, i)
        /\ call.op # "get" =>
               /\ srcResult'.op = call.op
               /\ srcResult'.outcome \in {"returned", "rejected"}
               /\ ~ok => sources' = sources
        /\ (call.op = "create" /\ ok) =>
               /\ Len(sources') = Len(sources) + 1
               /\ <<Head(sources')>> = srcResult'.value
               /\ Tail(sources') = sources
        /\ (call.op = "update" /\ ok) =>
               /\ Len(sources') = Len(sources)
               /\ \A k \in 1..Len(sources) :
                      sources'[k] = IF sources[k].id = call.id
                                    THEN srcResult'.value[1] ELSE sources[k]
        /\ (call.op = "delete" /\ ok) =>
               LET keep == {k \in 1..Len(sources) : sources[k].id # call.id}
               IN  /\ Len(sources') = Cardinality(keep)
                   /\ \A k \in keep :
                          sources'[Cardinality({j \in keep : j <= k})] = sources[k]

\* C12: the sources list changes only in the step that ends an API call
\* that succeeded; a rejected createSource, updateSource or deleteSource
\* leaves the list as it was and rejects the caller's promise; on
\* success addSource prepends the returned source, updateSource replaces
\* only the entries with that id, removeSource removes only those.
C12_AfterSuccess ==
    [][/\ sources' # sources =>
              /\ Len(srcCalls') < Len(srcCalls)
              /\ \E i \in 1..Len(srcCalls) :
                     /\ srcCalls' = Without(srcCalls, i)
                     /\ srcCalls[i].op # "get" => srcResult'.outcome = "returned"
       /\ Len(srcCalls') < Len(srcCalls) =>
              \E i \in 1..Len(srcCalls) : C12_Ended(i)]_vars

\* Two sources were added and a removeSource then succeeded, leaving
\* one source in the list.
C12_Witness ==
    /\ srcResult.op = "delete"
    /\ srcResult.outcome = "returned"
    /\ Len(sources) = 1
    /\ sourceSeq = 2
    /\ srcCalls = <<>>

(* ------------------------------------------------------------------ *)
(* Claims about ExcelImportModal                                       *)
(* ------------------------------------------------------------------ *)
\* The row of parsedRows was made from the data row at its index of f:
\* a row that exists, is not the header row and not empty, whose first
\* cell trims to the name and whose second cell trims to the URL, with
\* 'https://' in front when it had no protocol.
C13_MadeFrom(r, f) ==
    /\ f.readable
    /\ r.index + 1 <= Len(f.rawData)
    /\ LET row == f.rawData[r.index + 1]
           cellName == Trim(StringOrEmpty(CellAt(row, 0)))
           cellUrl == Trim(StringOrEmpty(CellAt(row, 1)))
       IN  /\ ~row.hole
           /\ cellName # <<>> /\ cellUrl # <<>>
           /\ r.name = cellName
           /\ r.url = IF StartsWith(cellUrl, HttpPrefix) \/ StartsWith(cellUrl, HttpsPrefix)
                      THEN cellUrl ELSE HttpsPrefix \o cellUrl

\* C13: every row of parsedRows has a non-empty name without surrounding
\* blanks, a non-empty URL that begins with 'http://' or 'https://' and
\* an index >= 1, and comes from a data row of a selected file that has
\* both a name and a URL; the rows are in ascending order of index.
C13_RowsValid ==
    \A k \in 1..Len(parsedRows) :
        LET r == parsedRows[k]
        IN  /\ r.name # <<>>
            /\ Head(r.name) # " " /\ r.name[Len(r.name)] # " "
            /\ r.url # <<>>
            /\ StartsWith(r.url, HttpPrefix) \/ StartsWith(r.url, HttpsPrefix)
            /\ r.index >= 1
            /\ \E f \in availableFiles : C13_MadeFrom(r, f)
            /\ k > 1 => parsedRows[k - 1].index < r.index

\* A file whose second data row has a URL without protocol was parsed,
\* its first data row having been skipped.
C13_Witness ==
    /\ latestParse = "parsed"
    /\ Len(parsedRows) = 1
    /\ parsedRows[1].index = 2
    /\ parsedRows[1].url = HttpsPrefix \o <<"a", ".", "b">>
    /\ xlError.kind = "row(s) skipped"

\* C14: when the parseFile call started last has ended with a fatal
\* error, parsedRows is empty and the Import button is disabled.
C14_FatalClears ==
    latestParse = "fatal" => parsedRows = <<>> /\ ~ImportEnabled

====
